---- MODULE Spec2Model ----
(***************************************************************************)
(* A model of the journalai backend (dmlaurel/journalai):                  *)
(*   - the call/conversation correlation heuristic of                      *)
(*     backend/fetch_elevenlabs_from_twilio_call.py and                    *)
(*     backend/find_conversations_by_phone.py,                             *)
(*   - the one-time-code login of backend/src/auth.py,                     *)
(*   - the signup handler of backend/app.py over the users table of        *)
(*     backend/migrations.                                                 *)
(* Each part has its own specification (SpecSearch, SpecFind, SpecPhone,   *)
(* SpecAuth, SpecSignup) over the shared variables below; the variables a  *)
(* specification does not use stay at their initial value.                 *)
(***************************************************************************)
EXTENDS Integers, Sequences, FiniteSets, TLC

VARIABLES
    sObj, sTarget, sResult, sPc,            \* search_for_call_sid_recursive
    fConvs, fSid, fPhone, fTs, fResult, fPc, \* find_elevenlabs_conversation_by_call_sid
    pSearch, pCaller, pMatch, pPc,          \* phone-number matching
    users, nextId,                          \* the users table and its SERIAL
    clock,                                  \* datetime.utcnow()
    aPc, aEmail, aCode, aRow, aRet,         \* auth calls in flight, per process
    aStale, issued, burned, nCalls,         \* history of the login codes
    gPc, gReq, gRet, gCount,                \* /api/signup requests in flight
    cPc, cEmail, cSeen, cRet, cFetched,     \* /api/user/conversations request in flight
    mEnv, mPc, mLog,                        \* send_email: environment, position, attempts
    session, gThreads,                      \* Flask session per request; notification threads
    xFiles, xApplied, xPc, xPending, xLog, xRuns, \* run_all_migrations
    kIn, kOut,                              \* format_phone_number
    qPc, qUsers, qIdx, qLog                 \* the multi-call script

searchVars == <<sObj, sTarget, sResult, sPc>>
findVars   == <<fConvs, fSid, fPhone, fTs, fResult, fPc>>
phoneVars  == <<pSearch, pCaller, pMatch, pPc>>
dbVars     == <<users, nextId>>
authVars   == <<clock, aPc, aEmail, aCode, aRow, aRet, aStale, issued, burned, nCalls>>
signupVars == <<gPc, gReq, gRet, gCount>>
convVars   == <<cPc, cEmail, cSeen, cRet, cFetched>>
mailVars   == <<mEnv, mPc, mLog>>
webVars    == <<session, gThreads>>
migrateVars == <<xFiles, xApplied, xPc, xPending, xLog, xRuns>>
formatVars == <<kIn, kOut>>
callVars   == <<qPc, qUsers, qIdx, qLog>>
toolVars   == <<migrateVars, formatVars, callVars>>
restVars   == <<convVars, mailVars, toolVars>>
laterVars  == <<restVars, webVars>>
vars == <<searchVars, findVars, phoneVars, dbVars, authVars, signupVars, laterVars>>

(***************************************************************************)
(* Python values.  A value is a record tagged by its type; a str is the    *)
(* sequence of its characters, a dict the sequence of its (key, value)     *)
(* pairs in insertion order, an object the record of its public data       *)
(* attributes.                                                             *)
(***************************************************************************)
PyNone == [t |-> "none"]
PyStr(s) == [t |-> "str", s |-> s]
PyInt(n) == [t |-> "int", n |-> n]
PyList(items) == [t |-> "list", items |-> items]
PyDict(kv) == [t |-> "dict", kv |-> kv]
PyObj(attrs, has_dump) == [t |-> "obj", attrs |-> attrs, has_dump |-> has_dump]
PyDatetime(n) == [t |-> "datetime", n |-> n]

DigitChars == <<"0", "1", "2", "3", "4", "5", "6", "7", "8", "9">>

IsDigit(c) == \E i \in 1..Len(DigitChars) : DigitChars[i] = c

RECURSIVE IntStr(_)
IntStr(n) ==
    IF n < 10 THEN <<DigitChars[n + 1]>>
    ELSE IntStr(n \div 10) \o <<DigitChars[(n % 10) + 1]>>

RECURSIVE JoinRepr(_, _)
RECURSIVE Repr(_)
RECURSIVE Str(_)
\* str(obj): the text of a value.
Str(v) ==
    CASE v.t = "none" -> <<"N", "o", "n", "e">>
      [] v.t = "str" -> v.s
      [] v.t = "int" -> IntStr(v.n)
      [] v.t = "list" -> <<"[">> \o JoinRepr([i \in 1..Len(v.items) |-> Repr(v.items[i])], 1) \o <<"]">>
      [] v.t = "dict" ->
            <<"{">> \o JoinRepr([i \in 1..Len(v.kv) |->
                            Repr(v.kv[i][1]) \o <<":", " ">> \o Repr(v.kv[i][2])], 1) \o <<"}">>
      [] v.t = "datetime" -> <<"datetime">> \o IntStr(v.n)
      [] v.t = "obj" -> <<"<", "object", ">">>

\* repr(obj), as str() of a container uses it for its items.
Repr(v) == IF v.t = "str" THEN <<"'">> \o v.s \o <<"'">> ELSE Str(v)

JoinRepr(parts, i) ==
    IF i > Len(parts) THEN <<>>
    ELSE IF i = Len(parts) THEN parts[i]
    ELSE parts[i] \o <<",", " ">> \o JoinRepr(parts, i + 1)

RECURSIVE LStrip(_)
LStrip(s) == IF s # <<>> /\ Head(s) = " " THEN LStrip(Tail(s)) ELSE s

RECURSIVE RStrip(_)
RStrip(s) == IF s # <<>> /\ s[Len(s)] = " " THEN RStrip(SubSeq(s, 1, Len(s) - 1)) ELSE s

\* str.strip()
Strip(s) == RStrip(LStrip(s))

\* Python truthiness: `if x:` / `not x` / `a or b`.
Truthy(v) ==
    CASE v.t = "none" -> FALSE
      [] v.t = "str" -> v.s # <<>>
      [] v.t = "int" -> v.n # 0
      [] v.t = "list" -> v.items # <<>>
      [] v.t = "dict" -> v.kv # <<>>
      [] OTHER -> TRUE

\* a or b
PyOr(a, b) == IF Truthy(a) THEN a ELSE b

\* The attribute names the model's objects use, in dir()'s (sorted) order.
AttrNames == <<"a", "b", "caller_phone_number", "conversation_id",
               "conversation_initiation_client_data", "conversation_uuid",
               "created_at", "dynamic_variables", "from_phone_number", "id",
               "metadata", "phone_number", "started_at", "system__call_sid",
               "system_call_sid", "timestamp", "twilio_from">>

HasAttr(o, name) == o.t = "obj" /\ name \in DOMAIN o.attrs

\* getattr(o, name, default)
GetAttr(o, name, default) == IF HasAttr(o, name) THEN o.attrs[name] ELSE default

\* dir(obj), restricted to the public, non-callable attributes.
Dir(o) == SelectSeq(AttrNames, LAMBDA n : n \in DOMAIN o.attrs)

RECURSIVE DictGetFrom(_, _, _, _)
DictGetFrom(kv, key, default, i) ==
    IF i > Len(kv) THEN default
    ELSE IF kv[i][1] = key THEN kv[i][2]
    ELSE DictGetFrom(kv, key, default, i + 1)

\* d.get(key, default)
DictGet(d, key, default) == DictGetFrom(d.kv, key, default, 1)

RECURSIVE ModelDump(_)
\* obj.model_dump(): the object as a dict of its fields, nested models dumped.
ModelDump(v) ==
    CASE v.t = "obj" ->
            LET names == Dir(v)
            IN  PyDict([i \in 1..Len(names) |->
                    <<PyStr(<<names[i]>>), ModelDump(v.attrs[names[i]])>>])
      [] v.t = "list" -> PyList([i \in 1..Len(v.items) |-> ModelDump(v.items[i])])
      [] v.t = "dict" ->
            PyDict([i \in 1..Len(v.kv) |-> <<v.kv[i][1], ModelDump(v.kv[i][2])>>])
      [] OTHER -> v

(***************************************************************************)
(* search_for_call_sid_recursive                                           *)
(***************************************************************************)
max_depth == 10

\* (None, None)
NoneNone == [value |-> PyNone, path |-> PyNone]

EmptyPath == [t |-> "path", segs |-> <<>>]

PathAdd(path, seg) == [t |-> "path", segs |-> path.segs \o <<seg>>]

RECURSIVE search_for_call_sid_recursive(_, _, _, _, _)
RECURSIVE SearchDictItems(_, _, _, _, _, _)
RECURSIVE SearchListItems(_, _, _, _, _, _)
RECURSIVE SearchAttrs(_, _, _, _, _, _)

\* The tail of the function, reached when no branch above returned:
\* model_dump() of a Pydantic model is searched one level deeper.
SearchDump(obj, target_sid, path, maxd, current_depth) ==
    IF obj.t = "obj" /\ obj.has_dump
    THEN search_for_call_sid_recursive(ModelDump(obj), target_sid, path, maxd, current_depth + 1)
    ELSE NoneNone

\* for key, value in obj.items(): ...
SearchDictItems(obj, i, target_sid, path, maxd, current_depth) ==
    IF i > Len(obj.kv) THEN SearchDump(obj, target_sid, path, maxd, current_depth)
    ELSE LET key == obj.kv[i][1]
             value == obj.kv[i][2]
         IN  IF Strip(Str(key)) = target_sid
             THEN [value |-> key, path |-> PathAdd(path, <<"key", key>>)]
             ELSE LET r == search_for_call_sid_recursive(value, target_sid,
                               PathAdd(path, <<"key", key>>), maxd, current_depth + 1)
                  IN  IF Truthy(r.value) THEN r
                      ELSE SearchDictItems(obj, i + 1, target_sid, path, maxd, current_depth)

\* for idx, item in enumerate(obj): ...
SearchListItems(obj, i, target_sid, path, maxd, current_depth) ==
    IF i > Len(obj.items) THEN SearchDump(obj, target_sid, path, maxd, current_depth)
    ELSE LET r == search_for_call_sid_recursive(obj.items[i], target_sid,
                      PathAdd(path, <<"idx", i - 1>>), maxd, current_depth + 1)
         IN  IF Truthy(r.value) THEN r
             ELSE SearchListItems(obj, i + 1, target_sid, path, maxd, current_depth)

\* for attr_name in dir(obj): ...
SearchAttrs(obj, i, target_sid, path, maxd, current_depth) ==
    IF i > Len(Dir(obj)) THEN SearchDump(obj, target_sid, path, maxd, current_depth)
    ELSE LET r == search_for_call_sid_recursive(obj.attrs[Dir(obj)[i]], target_sid,
                      PathAdd(path, <<"attr", Dir(obj)[i]>>), maxd, current_depth + 1)
         IN  IF Truthy(r.value) THEN r
             ELSE SearchAttrs(obj, i + 1, target_sid, path, maxd, current_depth)

search_for_call_sid_recursive(obj, target_sid, path, maxd, current_depth) ==
    IF current_depth > maxd THEN NoneNone
    ELSE IF obj = PyNone THEN NoneNone
    ELSE IF Strip(Str(obj)) = target_sid THEN [value |-> obj, path |-> path]
    ELSE CASE obj.t = "dict" -> SearchDictItems(obj, 1, target_sid, path, maxd, current_depth)
           [] obj.t = "list" -> SearchListItems(obj, 1, target_sid, path, maxd, current_depth)
           [] obj.t = "obj" -> SearchAttrs(obj, 1, target_sid, path, maxd, current_depth)
           [] OTHER -> NoneNone

(***************************************************************************)
(* SpecSearch: search_for_call_sid_recursive applied to nested structures. *)
(* The structure is grown outwards from a leaf, one container per step,    *)
(* and then searched with the default max_depth.                           *)
(***************************************************************************)
MaxNest == 11
MaxRich == 2

SidA == <<"A">>
SidB == <<"B">>

Leaves == {PyStr(SidA), PyStr(<<" ", "A", " ">>), PyStr(SidB), PyInt(0), PyNone}
Targets == {SidA, <<"0">>}
PairLeaves == {PyStr(SidA), PyInt(0)}
DictKeys == {PyStr(<<"k">>), PyStr(SidA), PyInt(0)}

RECURSIVE Nesting(_)
\* The number of containers around the innermost leaf of a grown structure.
Nesting(v) ==
    CASE v.t = "list" -> 1 + Nesting(v.items[Len(v.items)])
      [] v.t = "dict" -> 1 + Nesting(v.kv[Len(v.kv)][2])
      [] v.t = "obj" -> 1 + Nesting(v.attrs["b"])
      [] OTHER -> 0

RECURSIVE Rich(_)
\* The number of containers of a grown structure other than one-item lists.
Rich(v) ==
    CASE v.t = "list" -> (IF Len(v.items) > 1 THEN 1 ELSE 0) + Rich(v.items[Len(v.items)])
      [] v.t = "dict" -> 1 + Rich(v.kv[Len(v.kv)][2])
      [] v.t = "obj" -> 1 + Rich(v.attrs["b"])
      [] OTHER -> 0

IdleSearch == sObj = PyNone /\ sTarget = <<>> /\ sResult = NoneNone /\ sPc = "idle"
IdleFind == fConvs = <<>> /\ fSid = <<>> /\ fPhone = PyNone /\ fTs = PyNone
            /\ fResult = PyNone /\ fPc = "idle"
IdlePhone == pSearch = <<>> /\ pCaller = <<>> /\ pMatch = FALSE /\ pPc = "idle"
IdleDb == users = {} /\ nextId = 1
IdleAuth == clock = 0 /\ aPc = <<>> /\ aEmail = <<>> /\ aCode = <<>> /\ aRow = <<>>
            /\ aRet = <<>> /\ aStale = <<>> /\ issued = <<>> /\ burned = <<>> /\ nCalls = 0
IdleSignup == gPc = <<>> /\ gReq = <<>> /\ gRet = <<>> /\ gCount = 0
IdleConv == cPc = "idle" /\ cEmail = PyNone /\ cSeen = {} /\ cRet = PyNone /\ cFetched = FALSE
IdleMail == mEnv = {} /\ mPc = "idle" /\ mLog = <<>>
IdleWeb == session = <<>> /\ gThreads = <<>>
IdleMigrate == xFiles = {} /\ xApplied = {} /\ xPc = "idle" /\ xPending = <<>>
               /\ xLog = <<>> /\ xRuns = 0
IdleFormat == kIn = <<>> /\ kOut = <<>>
IdleCalls == qPc = "idle" /\ qUsers = <<>> /\ qIdx = 0 /\ qLog = <<>>
IdleTools == IdleMigrate /\ IdleFormat /\ IdleCalls
IdleRest == IdleConv /\ IdleMail /\ IdleTools
IdleLater == IdleRest /\ IdleWeb

InitSearch ==
    /\ sObj \in Leaves
    /\ sTarget \in Targets
    /\ sResult = NoneNone
    /\ sPc = "build"
    /\ IdleFind /\ IdlePhone /\ IdleDb /\ IdleAuth /\ IdleSignup /\ IdleLater

Grow(v) ==
    /\ sPc = "build"
    /\ Nesting(sObj) < MaxNest
    /\ sObj' = v
    /\ UNCHANGED <<sTarget, sResult, sPc, findVars, phoneVars, dbVars, authVars, signupVars, laterVars>>

\* [obj]
WrapList == Grow(PyList(<<sObj>>))

\* [leaf, obj]
WrapPair == \E leaf \in PairLeaves : Rich(sObj) < MaxRich /\ Grow(PyList(<<leaf, sObj>>))

\* {key: obj}
WrapDict == \E key \in DictKeys : Rich(sObj) < MaxRich /\ Grow(PyDict(<< <<key, sObj>> >>))

\* An object with attributes a and b = obj, with or without model_dump().
WrapObj ==
    \E dump \in BOOLEAN :
        Rich(sObj) < MaxRich /\ Grow(PyObj([a |-> PyInt(0), b |-> sObj], dump))

\* search_for_call_sid_recursive(obj, target_sid)
CallSearch ==
    /\ sPc = "build"
    /\ sResult' = search_for_call_sid_recursive(sObj, sTarget, EmptyPath, max_depth, 0)
    /\ sPc' = "done"
    /\ UNCHANGED <<sObj, sTarget, findVars, phoneVars, dbVars, authVars, signupVars, laterVars>>

NextSearch == WrapList \/ WrapPair \/ WrapDict \/ WrapObj \/ CallSearch

SpecSearch == InitSearch /\ [][NextSearch]_vars

RECURSIVE Occurs(_, _, _)
\* Some value, or dict key, whose str().strip() is the target lies at most
\* max_depth containers below the searched object (which is at depth 0).
Occurs(v, target, depth) ==
    /\ depth <= max_depth
    /\ v # PyNone
    /\ \/ Strip(Str(v)) = target
       \/ /\ v.t = "dict"
          /\ \E i \in 1..Len(v.kv) :
                \/ Strip(Str(v.kv[i][1])) = target
                \/ Occurs(v.kv[i][2], target, depth + 1)
       \/ /\ v.t = "list"
          /\ \E i \in 1..Len(v.items) : Occurs(v.items[i], target, depth + 1)
       \/ /\ v.t = "obj"
          /\ \E n \in DOMAIN v.attrs : Occurs(v.attrs[n], target, depth + 1)

C4_Reached ==
    /\ sPc = "done"
    /\ sObj.t = "dict"
    /\ Occurs(sObj, sTarget, 0)
    /\ Strip(Str(sObj.kv[1][1])) # sTarget

\* The same equivalence for a target no falsy value spells (every real
\* call SID): here the code agrees with C4.
C4_TruthyTargetFound ==
    (sPc = "done" /\ sTarget = SidA) =>
        /\ (sResult # NoneNone) <=> Occurs(sObj, sTarget, 0)
        /\ sResult # NoneNone => Strip(Str(sResult.value)) = sTarget

(***************************************************************************)
(* find_elevenlabs_conversation_by_call_sid                                *)
(***************************************************************************)
Key(name) == PyStr(<<name>>)

EmptyDict == PyDict(<<>>)

KnownPath == [t |-> "path",
              segs |-> <<"conversation_initiation_client_data", "dynamic_variables",
                         "system__call_sid">>]

\* found_value after the isinstance(client_data, dict) / elif hasattr(...)
\* branches of the known-path check.
KnownPathDirect(client_data) ==
    IF client_data.t = "dict"
    THEN LET dynamic_vars == DictGet(client_data, Key("dynamic_variables"), EmptyDict)
         IN  IF dynamic_vars.t = "dict"
             THEN DictGet(dynamic_vars, Key("system__call_sid"), PyNone)
             ELSE PyNone
    ELSE IF HasAttr(client_data, "dynamic_variables")
    THEN LET dynamic_vars == client_data.attrs["dynamic_variables"]
         IN  IF dynamic_vars.t = "dict"
             THEN DictGet(dynamic_vars, Key("system__call_sid"), PyNone)
             ELSE IF HasAttr(dynamic_vars, "system__call_sid")
             THEN dynamic_vars.attrs["system__call_sid"]
             ELSE IF HasAttr(dynamic_vars, "system_call_sid")
             THEN dynamic_vars.attrs["system_call_sid"]
             ELSE PyNone
    ELSE PyNone

\* found_value after the whole known-path check, model_dump() included.
KnownPathValue(full_conv) ==
    IF ~HasAttr(full_conv, "conversation_initiation_client_data") THEN PyNone
    ELSE LET client_data == full_conv.attrs["conversation_initiation_client_data"]
             direct == KnownPathDirect(client_data)
         IN  IF ~Truthy(direct) /\ client_data.t = "obj" /\ client_data.has_dump
             THEN LET dynamic_vars ==
                          DictGet(ModelDump(client_data), Key("dynamic_variables"), EmptyDict)
                  IN  IF dynamic_vars.t = "dict"
                      THEN DictGet(dynamic_vars, Key("system__call_sid"), PyNone)
                      ELSE direct
             ELSE direct

\* (found_value, found_path) when the loop body reaches `if found_value:`.
FoundSid(full_conv, twilio_call_sid) ==
    LET known == KnownPathValue(full_conv)
    IN  IF ~Truthy(known)
        THEN search_for_call_sid_recursive(full_conv, twilio_call_sid, EmptyPath, max_depth, 0)
        ELSE [value |-> known,
              path |-> IF Strip(Str(known)) = twilio_call_sid THEN KnownPath ELSE PyNone]

PhoneAttrs == <<"caller_phone_number", "phone_number", "from_phone_number", "twilio_from">>

RECURSIVE PhoneFromAttrs(_, _)
\* for attr in [...]: the first truthy attribute, as str(val).strip()
PhoneFromAttrs(full_conv, i) ==
    IF i > Len(PhoneAttrs) THEN PyNone
    ELSE IF HasAttr(full_conv, PhoneAttrs[i]) /\ Truthy(full_conv.attrs[PhoneAttrs[i]])
    THEN PyStr(Strip(Str(full_conv.attrs[PhoneAttrs[i]])))
    ELSE PhoneFromAttrs(full_conv, i + 1)

\* caller_phone: the conversation's phone number, from its attributes or
\* from metadata['phone_call'].
CallerPhone(full_conv) ==
    LET direct == PhoneFromAttrs(full_conv, 1)
    IN  IF ~Truthy(direct) /\ HasAttr(full_conv, "metadata")
        THEN LET metadata == full_conv.attrs["metadata"]
             IN  IF metadata.t = "dict"
                 THEN LET phone_call == DictGet(metadata, Key("phone_call"), EmptyDict)
                      IN  IF phone_call.t = "dict"
                          THEN PyOr(PyOr(DictGet(phone_call, Key("external_number"), PyNone),
                                         DictGet(phone_call, Key("caller_number"), PyNone)),
                                    DictGet(phone_call, Key("from"), PyNone))
                          ELSE direct
                 ELSE direct
        ELSE direct

\* normalize_phone: the digits of str(phone)
normalize_phone(phone) == SelectSeq(Str(phone), IsDigit)

\* s[-n:]
LastN(s, n) == IF Len(s) <= n THEN s ELSE SubSeq(s, Len(s) - n + 1, Len(s))

PhoneDigits == 10

\* caller_digits[-10:] == search_digits[-10:]
Last10Match(caller_digits, search_digits) ==
    LastN(caller_digits, PhoneDigits) = LastN(search_digits, PhoneDigits)

TimeAttrs == <<"created_at", "timestamp", "started_at">>

RECURSIVE ConvTimestamp(_, _)
\* for attr in [...]: the first attribute the conversation has
ConvTimestamp(full_conv, i) ==
    IF i > Len(TimeAttrs) THEN PyNone
    ELSE IF HasAttr(full_conv, TimeAttrs[i]) THEN full_conv.attrs[TimeAttrs[i]]
    ELSE ConvTimestamp(full_conv, i + 1)

Abs(x) == IF x < 0 THEN -x ELSE x

WindowSeconds == 300

\* time_diff < 300
WithinWindowLoose(time_diff) == time_diff <= WindowSeconds

WithinWindow(time_diff) == time_diff < WindowSeconds

\* The phone/timestamp fallback of the loop body: the result it returns, or
\* None when it falls through to the next conversation.  A str timestamp of
\* the model is not ISO text: datetime.fromisoformat raises and the except
\* clause passes.
PhoneFallback(conv_id, full_conv, phone_number, call_timestamp) ==
    IF ~(Truthy(phone_number) /\ Truthy(call_timestamp)) THEN PyNone
    ELSE LET caller_phone == CallerPhone(full_conv)
             conv_timestamp == ConvTimestamp(full_conv, 1)
         IN  IF /\ Truthy(caller_phone)
                /\ Last10Match(normalize_phone(caller_phone), normalize_phone(phone_number))
                /\ Truthy(conv_timestamp)
                /\ conv_timestamp.t = "datetime"
                /\ WithinWindow(Abs(conv_timestamp.n - call_timestamp.n))
             THEN [conversation_id |-> conv_id,
                   conversation |-> full_conv,
                   match_method |-> "phone_and_timestamp",
                   phone_match |-> TRUE,
                   time_diff_seconds |-> Abs(conv_timestamp.n - call_timestamp.n)]
             ELSE PyNone

\* conv_id = conversation_id or id or conversation_uuid
ConvId(conv) ==
    PyOr(PyOr(GetAttr(conv, "conversation_id", PyNone), GetAttr(conv, "id", PyNone)),
         GetAttr(conv, "conversation_uuid", PyNone))

RECURSIVE FindFrom(_, _, _, _, _)
\* for idx, conv in enumerate(conversations, 1): ...; return None
FindFrom(conversations, i, twilio_call_sid, phone_number, call_timestamp) ==
    IF i > Len(conversations) THEN PyNone
    ELSE LET conv == conversations[i]
             conv_id == ConvId(conv)
             rest == FindFrom(conversations, i + 1, twilio_call_sid, phone_number, call_timestamp)
         IN  IF ~Truthy(conv_id) THEN rest
             ELSE LET found == FoundSid(conv, twilio_call_sid)
                  IN  IF Truthy(found.value)
                      THEN [conversation_id |-> conv_id,
                            conversation |-> conv,
                            match_method |-> "twilio_call_sid",
                            twilio_call_sid |-> found.value,
                            found_path |-> found.path]
                      ELSE LET fb == PhoneFallback(conv_id, conv, phone_number, call_timestamp)
                           IN  IF fb # PyNone THEN fb ELSE rest

find_elevenlabs_conversation_by_call_sid(conversations, twilio_call_sid, phone_number, call_timestamp) ==
    FindFrom(conversations, 1, twilio_call_sid, phone_number, call_timestamp)

(***************************************************************************)
(* SpecFind: find_elevenlabs_conversation_by_call_sid over lists of        *)
(* conversations drawn from a menu.  A conversation of the model is the    *)
(* object get_conversation returns for it.                                 *)
(***************************************************************************)
MaxConvs == 2

T0 == 1000

PhoneN == <<"8", "6", "0", "3", "0", "4", "8", "7", "5", "3">>
PhoneOther == <<"8", "6", "0", "3", "0", "4", "8", "7", "5", "4">>
\* "+1 (860) 304-8753"
PhonePretty == <<"+", "1", " ", "(", "8", "6", "0", ")", " ", "3", "0", "4", "-",
                 "8", "7", "5", "3">>

DynVars(sid) == PyDict(<< <<Key("dynamic_variables"),
                           PyDict(<< <<Key("system__call_sid"), sid>> >>)>> >>)

\* What a conversation says about the call SID: nothing; the SID at the
\* known path (dict or Pydantic model); another call's SID there; an empty
\* value there and the SID elsewhere; the SID only elsewhere.
ClientData ==
    {   [x \in {} |-> PyNone],
        [conversation_initiation_client_data |-> DynVars(PyStr(SidA))],
        [conversation_initiation_client_data |-> DynVars(PyStr(SidB))],
        [conversation_initiation_client_data |->
            PyObj([dynamic_variables |-> PyObj([system__call_sid |-> PyStr(SidA)], TRUE)], TRUE)],
        [conversation_initiation_client_data |-> DynVars(PyStr(<<>>)),
         a |-> PyList(<<PyStr(<<" ", "A">>)>>)],
        [a |-> PyDict(<< <<Key("call_sid"), PyStr(SidA)>> >>)] }

\* What a conversation says about its phone number and its time.
PhoneAndTime ==
    {   [x \in {} |-> PyNone],
        [phone_number |-> PyStr(<<"1">> \o PhoneN), created_at |-> PyDatetime(T0 + 299)],
        [metadata |-> PyDict(<< <<Key("phone_call"),
                                  PyDict(<< <<Key("external_number"), PyStr(PhoneN)>> >>)>> >>),
         started_at |-> PyDatetime(T0 - 299)],
        [caller_phone_number |-> PyStr(PhoneN), created_at |-> PyDatetime(T0 + 300)],
        [phone_number |-> PyStr(PhoneOther), timestamp |-> PyDatetime(T0)],
        [twilio_from |-> PyStr(<<"#", "5", "3">>), created_at |-> PyDatetime(T0)] }

\* f @@ g without the TLC module's operator: the record with both sets of fields.
Merge(f, g) == [n \in DOMAIN f \cup DOMAIN g |-> IF n \in DOMAIN f THEN f[n] ELSE g[n]]

ConvMenu ==
    { PyObj(Merge([conversation_id |-> PyStr(<<"c">>)], Merge(cd, pt)), FALSE) :
        cd \in ClientData, pt \in PhoneAndTime }
    \cup { PyObj([conversation_initiation_client_data |-> DynVars(PyStr(SidA))], FALSE) }

InitFind ==
    /\ fConvs = <<>>
    /\ fSid = SidA
    /\ \E given \in { <<PyNone, PyNone>>,
                       <<PyStr(PhonePretty), PyNone>>,
                       <<PyStr(PhonePretty), PyDatetime(T0)>>,
                       <<PyStr(<<"5", "3">>), PyDatetime(T0)>> } :
            fPhone = given[1] /\ fTs = given[2]
    /\ fResult = PyNone
    /\ fPc = "build"
    /\ IdleSearch /\ IdlePhone /\ IdleDb /\ IdleAuth /\ IdleSignup /\ IdleLater

\* list_conversations() returns one more conversation.
AddConv ==
    \E conv \in ConvMenu :
        /\ fPc = "build"
        /\ Len(fConvs) < MaxConvs
        /\ fConvs' = Append(fConvs, conv)
        /\ UNCHANGED <<fSid, fPhone, fTs, fResult, fPc,
                       searchVars, phoneVars, dbVars, authVars, signupVars, laterVars>>

CallFind ==
    /\ fPc = "build"
    /\ fResult' = find_elevenlabs_conversation_by_call_sid(fConvs, fSid, fPhone, fTs)
    /\ fPc' = "done"
    /\ UNCHANGED <<fConvs, fSid, fPhone, fTs,
                   searchVars, phoneVars, dbVars, authVars, signupVars, laterVars>>

NextFind == AddConv \/ CallFind

SpecFind == InitFind /\ [][NextFind]_vars

MatchMethod(r) == IF r = PyNone THEN "none" ELSE r.match_method

\* The value a conversation stores as system__call_sid at the known path.
SystemCallSid(conv) ==
    IF HasAttr(conv, "conversation_initiation_client_data")
    THEN KnownPathDirect(conv.attrs["conversation_initiation_client_data"])
    ELSE PyNone

\* C1: a result with match_method 'twilio_call_sid' is a conversation that
\* contains a value equal to the target SID (after str() and strip()), and
\* never a conversation whose system__call_sid is a non-empty SID different
\* from the target.
C1_SidMatchHoldsTarget ==
    (fPc = "done" /\ MatchMethod(fResult) = "twilio_call_sid") =>
        /\ Occurs(fResult.conversation, fSid, 0)
        /\ LET sid == SystemCallSid(fResult.conversation)
           IN  ~(Truthy(sid) /\ Strip(Str(sid)) # fSid)

\* C2: a 'phone_and_timestamp' result is returned only when no listed
\* conversation matches the target call SID, whatever the order of the list.
C2_SidMatchTakesPrecedence ==
    (fPc = "done" /\ MatchMethod(fResult) = "phone_and_timestamp") =>
        \A i \in 1..Len(fConvs) :
            Truthy(ConvId(fConvs[i])) => ~Occurs(fConvs[i], fSid, 0)

\* C3: a 'phone_and_timestamp' result is returned only if a phone number and
\* a call timestamp were supplied, the last 10 digits of the conversation's
\* phone number equal those of the searched number, and the conversation
\* time is strictly less than 300 seconds from the call time;
\* time_diff_seconds is that difference.
C3_PhoneAndTimestampMatch ==
    (fPc = "done" /\ MatchMethod(fResult) = "phone_and_timestamp") =>
        /\ fPhone # PyNone /\ fTs # PyNone
        /\ LET conv == fResult.conversation
               caller == SelectSeq(Str(CallerPhone(conv)), IsDigit)
               wanted == SelectSeq(Str(fPhone), IsDigit)
               stamp == ConvTimestamp(conv, 1)
               diff == IF stamp.n >= fTs.n THEN stamp.n - fTs.n ELSE fTs.n - stamp.n
           IN  /\ (Len(caller) < 10 \/ Len(wanted) < 10) => caller = wanted
               /\ \A k \in 0..9 :
                    (k < Len(caller) /\ k < Len(wanted)) =>
                        caller[Len(caller) - k] = wanted[Len(wanted) - k]
               /\ diff < 300
               /\ fResult.time_diff_seconds = diff

\* C3's case: the fallback returned a conversation at the edge of the window.
C3_Reached ==
    /\ fPc = "done"
    /\ MatchMethod(fResult) = "phone_and_timestamp"
    /\ fResult.time_diff_seconds = 299

(***************************************************************************)
(* Phone-number matching of find_matching_conversations and                *)
(* ElevenLabsClient.get_latest_conversation_by_phone_number.  A phone      *)
(* number is a Python str, the sequence of its characters.                 *)
(***************************************************************************)
StartsWith(s, prefix) == Len(s) >= Len(prefix) /\ SubSeq(s, 1, Len(prefix)) = prefix

\* re.sub(r'[^\d]', '', str(phone))
DigitsOf(phone) == SelectSeq(phone, IsDigit)

CountryCodeLen == 11

\* search_variations: the searched digits and, for a +1 number, the digits
\* without the leading 1.
search_variations(phone_number) ==
    LET search_digits == DigitsOf(phone_number)
    IN  IF StartsWith(phone_number, <<"+", "1">>) /\ Len(search_digits) = CountryCodeLen
        THEN <<search_digits, Tail(search_digits)>>
        ELSE <<search_digits>>

\* The loop body without its last-10-digits test.
VariationMatchesExact(caller_digits, search_var) == caller_digits = search_var

\* One turn of `for search_var in search_variations`: equal digits, or equal
\* last 10 digits when both have at least 10.
VariationMatches(caller_digits, search_var) ==
    \/ caller_digits = search_var
    \/ /\ Len(caller_digits) >= PhoneDigits
       /\ Len(search_var) >= PhoneDigits
       /\ LastN(caller_digits, PhoneDigits) = LastN(search_var, PhoneDigits)

\* phone_matches / matched, for a conversation with a phone number.
phone_matches(caller_phone, phone_number) ==
    LET caller_digits == DigitsOf(caller_phone)
        variations == search_variations(phone_number)
    IN  \E i \in 1..Len(variations) : VariationMatches(caller_digits, variations[i])

(***************************************************************************)
(* SpecPhone: the matching applied to pairs of written forms of numbers.   *)
(***************************************************************************)
\* A 10-digit number with another area code and the same last 7 digits.
PhoneArea == <<"2", "1", "2", "3", "0", "4", "8", "7", "5", "3">>

PhoneBodies == {PhoneN, PhoneOther, PhoneArea, Tail(PhoneN), <<"5", "3">>}
PhonePrefixes == {<<>>, <<"1">>, <<"+", "1">>, <<"+", "4", "4">>}

\* "(860) 304-8753" for "8603048753": punctuation around the first three
\* characters and before the last four.
Punctuated(body) ==
    IF Len(body) < 8 THEN <<"#">> \o body
    ELSE <<"(">> \o SubSeq(body, 1, 3) \o <<")", " ">>
         \o SubSeq(body, 4, Len(body) - 4) \o <<"-">>
         \o SubSeq(body, Len(body) - 3, Len(body))

PhoneForms ==
    { prefix \o body : prefix \in PhonePrefixes, body \in PhoneBodies }
    \cup { prefix \o <<" ">> \o Punctuated(body) : prefix \in PhonePrefixes, body \in PhoneBodies }

InitPhone ==
    /\ pSearch \in PhoneForms
    /\ pCaller \in PhoneForms
    /\ pMatch = FALSE
    /\ pPc = "ready"
    /\ IdleSearch /\ IdleFind /\ IdleDb /\ IdleAuth /\ IdleSignup /\ IdleLater

CallPhoneMatch ==
    /\ pPc = "ready"
    /\ pMatch' = phone_matches(pCaller, pSearch)
    /\ pPc' = "done"
    /\ UNCHANGED <<pSearch, pCaller, searchVars, findVars, dbVars, authVars, signupVars, laterVars>>

NextPhone == CallPhoneMatch

SpecPhone == InitPhone /\ [][NextPhone]_vars

\* The written forms of the 10-digit national number n: n, 1n, +1n, with or
\* without punctuation.
FormsOf(n) ==
    { prefix \o n : prefix \in {<<>>, <<"1">>, <<"+", "1">>} }
    \cup { prefix \o <<" ">> \o Punctuated(n) : prefix \in {<<>>, <<"1">>, <<"+", "1">>} }

\* The last (at most) 10 digits of a written number, read from its end.
LastTen(phone) ==
    LET d == SelectSeq(phone, IsDigit)
        k == IF Len(d) < 10 THEN Len(d) ELSE 10
    IN  [i \in 1..k |-> d[Len(d) - k + i]]

\* C5: matching depends only on the digits and ignores a leading US country
\* code: any two written forms of one 10-digit national number match each
\* other, and two numbers whose last 10 digits differ never match.
C5_PhoneMatchByDigits ==
    pPc = "done" =>
        /\ \A n \in {PhoneN, PhoneOther, PhoneArea} :
              (pSearch \in FormsOf(n) /\ pCaller \in FormsOf(n)) => pMatch
        /\ LastTen(pSearch) # LastTen(pCaller) => ~pMatch
        /\ pMatch <=>
              LET s == SelectSeq(pSearch, IsDigit)
                  c == SelectSeq(pCaller, IsDigit)
              IN  s = c \/ (Len(s) >= 10 /\ Len(c) >= 10 /\ LastTen(pSearch) = LastTen(pCaller))

\* C5's case: a bare national number was matched against its punctuated
\* +1 form.
C5_Reached ==
    /\ pPc = "done"
    /\ pSearch = <<"+", "1", " ">> \o Punctuated(PhoneN)
    /\ pCaller = PhoneN
    /\ pMatch

(***************************************************************************)
(* The users table (migrations 001-004).  A row is a record; NULL is       *)
(* PyNone; an e-mail address is a str, the sequence of its characters.     *)
(***************************************************************************)
UserRow(id, email, phone_number) ==
    [id |-> id, email |-> email, phone_number |-> phone_number,
     approved |-> "PENDING_APPROVAL",
     one_time_code |-> PyNone, one_time_code_expiry |-> PyNone]

\* SELECT ... FROM users WHERE email = %s
RowsByEmail(email) == {row \in users : row.email = email}

\* UPDATE users SET ... WHERE id = %s
UpdateById(id, set) ==
    {IF row.id = id
     THEN [col \in DOMAIN row |-> IF col \in DOMAIN set THEN set[col] ELSE row[col]]
     ELSE row : row \in users}

(***************************************************************************)
(* request_login_code and verify_login_code (src/auth.py), one statement   *)
(* group per step; a transaction's writes take effect at its commit.       *)
(***************************************************************************)
NumProcs == 2
MaxCalls == 3
TickMinutes == 8
CodeTtlMinutes == 15

Procs == 1..NumProcs

EmailA == <<"a", "@", "x">>
EmailB == <<"b", "@", "x">>
AuthEmails == {EmailA, EmailB}

\* generate_one_time_code(): six random digits; the model draws all six alike.
CodeLen == 6
Codes == {PyStr([i \in 1..CodeLen |-> d]) : d \in {"1", "2"}}

\* expiry = datetime.utcnow() + timedelta(minutes=15)
CodeExpiry(now) == PyDatetime(now + CodeTtlMinutes)

\* SET one_time_code = %s, one_time_code_expiry = %s
StoreCode(code, expiry) ==
    [one_time_code |-> code, one_time_code_expiry |-> expiry]

\* verify_login_code without its UPDATE.
ClearCodeForgotten == <<>>

\* SET one_time_code = NULL, one_time_code_expiry = NULL
ClearCode ==
    [one_time_code |-> PyNone, one_time_code_expiry |-> PyNone]

\* verify_login_code without its expiry test.
CodeExpiredNever(expiry, now) == FALSE

\* if expiry and datetime.utcnow() > expiry
CodeExpired(expiry, now) == Truthy(expiry) /\ now > expiry.n

\* The WHERE clause without its one_time_code test.
CodeRowsAnyCode(email, code) == {row \in users : row.email = email}

\* SELECT ... FROM users WHERE email = %s AND one_time_code = %s
CodeRows(email, code) ==
    {row \in users : row.email = email /\ code # PyNone /\ row.one_time_code = code}

\* session['user_id'], session['user_email']
Session(user) == [user_id |-> user.id, user_email |-> user.email]

\* A handler that answers 200 whatever verify_login_code returned.
VerifyStatusOk(success) == 200

\* handle_verify_login_code: 200 if success and user_data, else 401.
VerifyStatus(success) == IF success THEN 200 ELSE 401

NoCall == [stale |-> FALSE, old |-> FALSE, at |-> 0]

\* A worker process is free to take a call, and is the first such process.
Free(p) == aPc[p] \in {"idle", "returned"}
TakesCall(p) == Free(p) /\ \A q \in Procs : (q < p => ~Free(q))

InitAuth ==
    /\ users = {UserRow(1, EmailA, "p1")}
    /\ nextId = 2
    /\ clock = 0
    /\ aPc = [p \in Procs |-> "idle"]
    /\ aEmail = [p \in Procs |-> <<>>]
    /\ aCode = [p \in Procs |-> PyNone]
    /\ aRow = [p \in Procs |-> PyNone]
    /\ aRet = [p \in Procs |-> PyNone]
    /\ aStale = [p \in Procs |-> NoCall]
    /\ issued = [e \in AuthEmails |-> [at |-> 0, old |-> {}]]
    /\ burned = [e \in AuthEmails |-> {}]
    /\ nCalls = 0
    /\ session = [p \in Procs |-> PyNone]
    /\ gThreads = <<>>
    /\ IdleSearch /\ IdleFind /\ IdlePhone /\ IdleSignup /\ IdleRest

authOther == <<searchVars, findVars, phoneVars, signupVars, restVars, gThreads>>

\* datetime.utcnow() advances; the clock takes three values: the start, one
\* tick later (a code of the start is still valid) and two ticks later (it
\* has expired).
Tick ==
    /\ clock < 2 * TickMinutes
    /\ clock' = clock + TickMinutes
    /\ UNCHANGED <<users, nextId, aPc, aEmail, aCode, aRow, aRet, aStale, issued, burned,
                   nCalls, session, authOther>>

\* request_login_code(email): SELECT the user; unknown -> (False, ...).
RequestSelect(p) ==
    \E email \in AuthEmails :
        /\ TakesCall(p)
        /\ nCalls < MaxCalls
        /\ nCalls' = nCalls + 1
        /\ aEmail' = [aEmail EXCEPT ![p] = email]
        /\ aCode' = [aCode EXCEPT ![p] = PyNone]
        /\ aStale' = [aStale EXCEPT ![p] = NoCall]
        /\ IF RowsByEmail(email) = {}
           THEN /\ aPc' = [aPc EXCEPT ![p] = "returned"]
                /\ aRet' = [aRet EXCEPT ![p] = [call |-> "request", ok |-> FALSE]]
                /\ aRow' = [aRow EXCEPT ![p] = PyNone]
           ELSE /\ aPc' = [aPc EXCEPT ![p] = "request_update"]
                /\ aRow' = [aRow EXCEPT ![p] = CHOOSE row \in RowsByEmail(email) : TRUE]
                /\ aRet' = [aRet EXCEPT ![p] = PyNone]
        /\ session' = [session EXCEPT ![p] = PyNone]
        /\ UNCHANGED <<users, nextId, clock, issued, burned, authOther>>

\* request_login_code: generate the code, UPDATE the user, commit.
RequestUpdate(p) ==
    \E code \in Codes :
        LET previous == {row.one_time_code : row \in RowsByEmail(aEmail[p])} \ {PyNone}
        IN  /\ aPc[p] = "request_update"
            /\ users' = UpdateById(aRow[p].id, StoreCode(code, CodeExpiry(clock)))
            /\ aCode' = [aCode EXCEPT ![p] = code]
            /\ issued' = [issued EXCEPT ![aEmail[p]] =
                            [at |-> clock, old |-> (@.old \cup previous) \ {code}]]
            /\ burned' = [burned EXCEPT ![aEmail[p]] = {}]
            /\ aPc' = [aPc EXCEPT ![p] = "request_send"]
            /\ UNCHANGED <<nextId, clock, aEmail, aRow, aRet, aStale, nCalls, session, authOther>>

\* request_login_code: send_email succeeds or raises.
RequestSend(p) ==
    \E sent \in BOOLEAN :
        /\ aPc[p] = "request_send"
        /\ aRet' = [aRet EXCEPT ![p] = [call |-> "request", ok |-> sent]]
        /\ aPc' = [aPc EXCEPT ![p] = "returned"]
        /\ UNCHANGED <<users, nextId, clock, aEmail, aCode, aRow, aStale, issued, burned,
                       nCalls, session, authOther>>

\* verify_login_code(email, code): SELECT the user with that code; none ->
\* (False, None).
VerifySelect(p) ==
    \E email \in AuthEmails, code \in Codes :
        /\ TakesCall(p)
        /\ nCalls < MaxCalls
        /\ nCalls' = nCalls + 1
        /\ aEmail' = [aEmail EXCEPT ![p] = email]
        /\ aCode' = [aCode EXCEPT ![p] = code]
        /\ aStale' = [aStale EXCEPT ![p] = [stale |-> code \in burned[email],
                                            old |-> code \in issued[email].old,
                                            at |-> issued[email].at]]
        /\ IF CodeRows(email, code) = {}
           THEN /\ aPc' = [aPc EXCEPT ![p] = "returned"]
                /\ aRet' = [aRet EXCEPT ![p] = [call |-> "verify", ok |-> FALSE, at |-> clock, status |-> VerifyStatus(FALSE)]]
                /\ aRow' = [aRow EXCEPT ![p] = PyNone]
           ELSE /\ aPc' = [aPc EXCEPT ![p] = "verify_check"]
                /\ aRow' = [aRow EXCEPT ![p] = CHOOSE row \in CodeRows(email, code) : TRUE]
                /\ aRet' = [aRet EXCEPT ![p] = PyNone]
        /\ session' = [session EXCEPT ![p] = PyNone]
        /\ UNCHANGED <<users, nextId, clock, issued, burned, authOther>>

\* verify_login_code: expired -> (False, None); else clear the code, commit,
\* return (True, user_data).
VerifyCheck(p) ==
    /\ aPc[p] = "verify_check"
    /\ IF CodeExpired(aRow[p].one_time_code_expiry, clock)
       THEN /\ aRet' = [aRet EXCEPT ![p] = [call |-> "verify", ok |-> FALSE, at |-> clock, status |-> VerifyStatus(FALSE)]]
            /\ UNCHANGED <<users, burned, session>>
       ELSE /\ users' = UpdateById(aRow[p].id, ClearCode)
            /\ burned' = [burned EXCEPT ![aEmail[p]] = @ \cup {aCode[p]}]
            /\ aRet' = [aRet EXCEPT ![p] = [call |-> "verify", ok |-> TRUE, at |-> clock, status |-> VerifyStatus(TRUE)]]
            /\ session' = [session EXCEPT ![p] = Session(aRow[p])]
    /\ aPc' = [aPc EXCEPT ![p] = "returned"]
    /\ UNCHANGED <<nextId, clock, aEmail, aCode, aRow, aStale, issued, nCalls, authOther>>

NextAuth ==
    \/ Tick
    \/ \E p \in Procs : RequestSelect(p)
    \/ \E p \in Procs : RequestUpdate(p)
    \/ \E p \in Procs : RequestSend(p)
    \/ \E p \in Procs : VerifySelect(p)
    \/ \E p \in Procs : VerifyCheck(p)

SpecAuth == InitAuth /\ [][NextAuth]_vars

Returned(p, call) == aPc[p] = "returned" /\ aRet[p].call = call

\* C6: a login code is single-use: once verify_login_code has succeeded for
\* (email, code), a later verify_login_code with the same (email, code), with
\* no new request_login_code for that email in between, returns (False, None).
C6_CodeIsSingleUse ==
    \A p \in Procs : (Returned(p, "verify") /\ aStale[p].stale) => ~aRet[p].ok

\* C6's case: a code that was already used was submitted again and refused.
C6_Reached ==
    \E p \in Procs : Returned(p, "verify") /\ aStale[p].stale /\ ~aRet[p].ok

\* C7: verify_login_code returns (False, None) whenever the current UTC time
\* is later than the expiry request_login_code stored (request time plus 15
\* minutes), also for the right code.
C7_ExpiredCodeRefused ==
    \A p \in Procs :
        (Returned(p, "verify") /\ aRet[p].at > aStale[p].at + CodeTtlMinutes) => ~aRet[p].ok

\* C7's case: the stored code was submitted after its expiry and refused.
C7_Reached ==
    \E p \in Procs :
        /\ Returned(p, "verify")
        /\ aRow[p] # PyNone
        /\ aRet[p].at > aStale[p].at + CodeTtlMinutes
        /\ ~aRet[p].ok

\* C8: at most one code is valid per user: once a later request_login_code
\* has stored a new code, verify_login_code with an earlier, different code
\* returns (False, None).
C8_OnlyLatestCodeValid ==
    \A p \in Procs : (Returned(p, "verify") /\ aStale[p].old) => ~aRet[p].ok

\* C8's case: a superseded code was submitted while a newer one was
\* outstanding, and refused.
C8_Reached ==
    \E p \in Procs :
        /\ Returned(p, "verify")
        /\ aStale[p].old
        /\ \E row \in RowsByEmail(aEmail[p]) : row.one_time_code # PyNone
        /\ ~aRet[p].ok

\* A step in which process p takes a verify call.
VerifyBegins(p) ==
    /\ TakesCall(p)
    /\ nCalls' # nCalls
    /\ aPc'[p] = "verify_check" \/ (aPc'[p] = "returned" /\ aRet'[p].call = "verify")

\* No row of that email holds the submitted code (no such user, no code
\* outstanding, or another code).
Mismatch(p) ==
    \A row \in users : row.email = aEmail'[p] => row.one_time_code # aCode'[p]

\* C17: verify_login_code with a code that is not the user's stored code (no
\* code outstanding and unknown email included) returns (False, None) and
\* leaves the stored code and expiry unchanged; the handler answers 401 and
\* sets no session; the session is set only on a successful verification.
C17_WrongCodeRefused ==
    /\ [][\A p \in Procs :
            (VerifyBegins(p) /\ Mismatch(p)) =>
                /\ aPc'[p] = "returned"
                /\ ~aRet'[p].ok
                /\ aRet'[p].status = 401
                /\ users' = users
                /\ session'[p] = PyNone]_vars
    /\ [](\A p \in Procs :
            /\ (Returned(p, "verify") /\ ~aRet[p].ok) =>
                  aRet[p].status = 401 /\ session[p] = PyNone
            /\ session[p] # PyNone => Returned(p, "verify") /\ aRet[p].ok)

\* C17's case: a wrong code was refused while the right one stayed stored.
C17_Reached ==
    \E p \in Procs :
        /\ Returned(p, "verify") /\ ~aRet[p].ok /\ aRow[p] = PyNone
        /\ \E row \in RowsByEmail(aEmail[p]) :
              row.one_time_code \notin {PyNone, aCode[p]}

\* C18: whenever request_login_code returns success False (unknown email or
\* failure to send the email), the call has left the users table unchanged:
\* it has stored no code (aCode[p] is the code the call's UPDATE committed).
C18_FailedRequestStoresNothing ==
    \A p \in Procs :
        (Returned(p, "request") /\ ~aRet[p].ok) => aCode[p] = PyNone

(***************************************************************************)
(* handle_signup (app.py), one database transaction per step: the lookup   *)
(* of get_user_by_email, the phone-number check, the INSERT.               *)
(***************************************************************************)
MaxSignups == 2

\* str.lower(), on the letters the model's addresses use.
LowerChar(c) == CASE c = "A" -> "a" [] c = "B" -> "b" [] OTHER -> c
Lower(s) == [i \in 1..Len(s) |-> LowerChar(s[i])]

\* email.lower().strip()
NormalizeEmail(email) == Strip(Lower(email))

\* A JSON body with all four required fields.
SignupBody(email, phone_number) ==
    [email |-> email, first_name |-> <<"F">>, last_name |-> <<"L">>,
     phone_number |-> phone_number, message |-> <<>>]

SignupBodies ==
    { SignupBody(email, phone) :
        email \in {PyStr(EmailA), PyStr(<<" ", "A", "@", "x">>), PyStr(EmailB)},
        phone \in {<<"1">>, <<"2", " ">>} }
    \cup { [SignupBody(PyStr(EmailA), <<"1">>) EXCEPT !.message = message] :
                message \in {<<" ">>, <<"m">>} }
    \cup { PyNone,
           SignupBody(PyNone, <<"1">>),
           [SignupBody(PyStr(EmailA), <<"1">>) EXCEPT !.first_name = <<" ">>],
           [SignupBody(PyStr(EmailA), <<"1">>) EXCEPT !.last_name = <<>>],
           SignupBody(PyStr(EmailB), <<" ">>),
           [SignupBody(PyStr(<<>>), <<>>) EXCEPT !.last_name = <<>>] }

\* A validation that lets an empty phone number through.
SignupValidationNoPhone(data) ==
    IF data = PyNone THEN "No data provided"
    ELSE IF ~Truthy(data.email) THEN "Email is required"
    ELSE IF Strip(data.first_name) = <<>> THEN "First name is required"
    ELSE IF Strip(data.last_name) = <<>> THEN "Last name is required"
    ELSE ""

\* Lines 38-62: the error of the first failing check, or "" when all pass.
SignupValidation(data) ==
    IF data = PyNone THEN "No data provided"
    ELSE IF ~Truthy(data.email) THEN "Email is required"
    ELSE IF Strip(data.first_name) = <<>> THEN "First name is required"
    ELSE IF Strip(data.last_name) = <<>> THEN "Last name is required"
    ELSE IF Strip(data.phone_number) = <<>> THEN "Phone number is required"
    ELSE ""

EmailExistsError == "An account with this email already exists. Please log in instead."
PhoneExistsError == "This phone number is already registered to another account."

\* A users table without the UNIQUE constraint on email.
EmailUniqueViolationUnchecked(email) == FALSE

\* email VARCHAR(255) UNIQUE NOT NULL: the INSERT raises a unique violation.
EmailUniqueViolation(email) == \E row \in users : row.email = email

\* SELECT id, email FROM users WHERE phone_number = %s
RowsByPhone(phone_number) == {row \in users : row.phone_number = phone_number}

GFree(p) == gPc[p] \in {"idle", "returned"}
GTakesCall(p) == GFree(p) /\ \A q \in Procs : (q < p => ~GFree(q))

Response(status, error, created) == [status |-> status, error |-> error, created |-> created]

InitSignup ==
    /\ users = {}
    /\ nextId = 1
    /\ gPc = [p \in Procs |-> "idle"]
    /\ gReq = [p \in Procs |-> PyNone]
    /\ gRet = [p \in Procs |-> PyNone]
    /\ gCount = 0
    /\ session = [p \in Procs |-> PyNone]
    /\ gThreads = <<>>
    /\ IdleSearch /\ IdleFind /\ IdlePhone /\ IdleAuth /\ IdleRest

signupOther == <<searchVars, findVars, phoneVars, authVars, restVars>>

\* The request arrives: validation, normalisation, get_user_by_email.
SignupLookup(p) ==
    \E data \in SignupBodies :
        /\ GTakesCall(p)
        /\ gCount < MaxSignups
        /\ gCount' = gCount + 1
        /\ IF SignupValidation(data) # ""
           THEN /\ gPc' = [gPc EXCEPT ![p] = "returned"]
                /\ gReq' = [gReq EXCEPT ![p] = [data |-> data, email |-> PyNone,
                                                  phone_number |-> <<>>, message |-> <<>>,
                                                  existed |-> FALSE]]
                /\ gRet' = [gRet EXCEPT ![p] = Response(400, SignupValidation(data), 0)]
           ELSE LET email == NormalizeEmail(data.email.s)
                    existing_user == RowsByEmail(email)
                    req == [data |-> data, email |-> email,
                            phone_number |-> Strip(data.phone_number),
                            message |-> Strip(data.message), existed |-> existing_user # {}]
                IN  /\ gReq' = [gReq EXCEPT ![p] = req]
                    /\ IF existing_user # {}
                       THEN /\ gPc' = [gPc EXCEPT ![p] = "returned"]
                            /\ gRet' = [gRet EXCEPT ![p] = Response(400, EmailExistsError, 0)]
                       ELSE /\ gPc' = [gPc EXCEPT ![p] = "phone_check"]
                            /\ gRet' = [gRet EXCEPT ![p] = PyNone]
        /\ session' = [session EXCEPT ![p] = PyNone]
        /\ UNCHANGED <<users, nextId, gThreads, signupOther>>

\* Is the phone number already assigned to another user?
SignupPhoneCheck(p) ==
    /\ gPc[p] = "phone_check"
    /\ IF RowsByPhone(gReq[p].phone_number) # {}
       THEN /\ gPc' = [gPc EXCEPT ![p] = "returned"]
            /\ gRet' = [gRet EXCEPT ![p] = Response(400, PhoneExistsError, 0)]
       ELSE /\ gPc' = [gPc EXCEPT ![p] = "insert"]
            /\ gRet' = gRet
    /\ UNCHANGED <<users, nextId, gReq, gCount, webVars, signupOther>>

\* A handle_signup that starts the thread whatever the message is.
StartsThreadAlways(message) == TRUE

\* if message
StartsThread(message) == message # <<>>

\* INSERT INTO users ... RETURNING ...; session; email_thread.start(); commit.
\* The SERIAL advances also when the INSERT fails.
SignupInsert(p) ==
    /\ gPc[p] = "insert"
    /\ nextId' = nextId + 1
    /\ IF EmailUniqueViolation(gReq[p].email)
       THEN /\ gRet' = [gRet EXCEPT ![p] = Response(400, EmailExistsError, 0)]
            /\ gReq' = [gReq EXCEPT ![p].existed = TRUE]
            /\ gPc' = [gPc EXCEPT ![p] = "returned"]
            /\ UNCHANGED <<users, webVars>>
       ELSE LET user == UserRow(nextId, gReq[p].email, gReq[p].phone_number)
            IN  /\ users' = users \cup {user}
                /\ session' = [session EXCEPT ![p] = Session(user)]
                /\ gThreads' = IF StartsThread(gReq[p].message)
                               THEN Append(gThreads, [user_id |-> user.id,
                                                      message |-> gReq[p].message,
                                                      state |-> "running"])
                               ELSE gThreads
                /\ gRet' = [gRet EXCEPT ![p] = Response(200, "", user.id)]
                /\ gReq' = gReq
                /\ gPc' = [gPc EXCEPT ![p] = "respond"]
    /\ UNCHANGED <<gCount, signupOther>>

\* return jsonify({'success': True, ...}), 200 reaches the client.
SignupRespond(p) ==
    /\ gPc[p] = "respond"
    /\ gPc' = [gPc EXCEPT ![p] = "returned"]
    /\ UNCHANGED <<users, nextId, gReq, gRet, gCount, webVars, signupOther>>

\* send_email_async: send_email returns, or raises and is logged.
SendEmailAsyncEnds ==
    \E i \in 1..Len(gThreads), outcome \in {"sent", "failed"} :
        /\ gThreads[i].state = "running"
        /\ gThreads' = [gThreads EXCEPT ![i].state = outcome]
        /\ UNCHANGED <<users, nextId, signupVars, session, signupOther>>

NextSignup ==
    \/ \E p \in Procs : SignupLookup(p)
    \/ \E p \in Procs : SignupPhoneCheck(p)
    \/ \E p \in Procs : SignupInsert(p)
    \/ \E p \in Procs : SignupRespond(p)
    \/ SendEmailAsyncEnds

SpecSignup == InitSignup /\ [][NextSignup]_vars

\* C9: after any interleaving of signups no two users rows have the same
\* e-mail address, compared lower-cased and stripped; a signup (with all
\* required fields) whose normalised address already exists gets 400 'An
\* account with this email already exists. Please log in instead.' and
\* creates no row.
C9_EmailUnique ==
    /\ \A r1 \in users, r2 \in users :
          Strip(Lower(r1.email)) = Strip(Lower(r2.email)) => r1 = r2
    /\ \A p \in Procs :
          (gPc[p] = "returned" /\ gReq[p] # PyNone /\ gReq[p].existed) =>
              /\ gRet[p].status = 400
              /\ gRet[p].error = EmailExistsError
              /\ gRet[p].created = 0

\* C9's case: two signups for one address raced past the lookup, and the
\* second INSERT was refused.
C9_Reached ==
    \E p \in Procs, q \in Procs :
        /\ p # q
        /\ gPc[p] = "returned" /\ gPc[q] = "returned"
        /\ gRet[q].status = 200
        /\ gReq[p] # PyNone /\ gReq[p].existed /\ gReq[p].email = gReq[q].email
        /\ nextId = 3

\* C10: after any interleaving of signups, concurrent ones with the same
\* phone_number included, no two users rows have the same phone_number; a
\* signup whose phone number is already registered gets 400 'This phone
\* number is already registered to another account.' and creates no row.
C10_PhoneUnique ==
    \A r1 \in users, r2 \in users : r1.phone_number = r2.phone_number => r1 = r2

\* A text field that is absent, empty or blank.
Blank(field) == \A i \in 1..Len(field) : field[i] = " "

\* The '... is required' errors of the fields a body lacks.
RequiredErrors(data) ==
    IF data = PyNone THEN {}
    ELSE {e \in {"Email is required", "First name is required",
                 "Last name is required", "Phone number is required"} :
            CASE e = "Email is required" -> ~Truthy(data.email)
              [] e = "First name is required" -> Blank(data.first_name)
              [] e = "Last name is required" -> Blank(data.last_name)
              [] OTHER -> Blank(data.phone_number)}

Incomplete(data) == data = PyNone \/ RequiredErrors(data) # {}

\* The answer to an incomplete body: 400, one of the given errors, no user
\* created, no session.
Refused(p, errors) ==
    /\ gRet[p].status = 400
    /\ gRet[p].error \in errors
    /\ gRet[p].created = 0
    /\ session[p] = PyNone

\* A step in which a signup with an incomplete body is answered.
AnswersIncomplete ==
    \E p \in Procs : gPc'[p] = "returned" /\ gPc[p] # "returned" /\ Incomplete(gReq'[p].data)

ThreadsFollowInsert ==
    /\ \A i \in 1..Len(gThreads), j \in 1..Len(gThreads) :
          gThreads[i].user_id = gThreads[j].user_id => i = j
    /\ \A i \in 1..Len(gThreads) :
          /\ gThreads[i].message # <<>>
          /\ \E row \in users : row.id = gThreads[i].user_id
    /\ \A p \in Procs :
          (gPc[p] \in {"respond", "returned"} /\ gRet[p].status = 200) =>
              \E row \in users : row.id = gRet[p].created /\ row.email = gReq[p].email

\* A step in which a notification thread ends.
ThreadEnds ==
    /\ Len(gThreads') = Len(gThreads)
    /\ gThreads' # gThreads

\* C13: the signup notification is fire-and-forget: handle_signup starts at
\* most one thread, only for a non-empty message and only after the user row
\* was inserted; the response and the created user do not depend on whether,
\* when or in which order the background send_email completes or fails.
C13_FireAndForget ==
    /\ []ThreadsFollowInsert
    /\ [][ThreadEnds => UNCHANGED <<users, nextId, signupVars, session>>]_vars

\* C13's case: the background send_email failed before the 200 response of
\* its signup went out.
C13_Reached ==
    \E p \in Procs, i \in 1..Len(gThreads) :
        /\ gPc[p] = "respond" /\ gRet[p].status = 200
        /\ gThreads[i].user_id = gRet[p].created
        /\ gThreads[i].state = "failed"

(***************************************************************************)
(* handle_get_conversations (app.py): the approval gate in front of        *)
(* get_user_conversations_data.  The approved column is changed by an      *)
(* operator, outside the handler.                                          *)
(***************************************************************************)
\* CHECK (approved IN ('PENDING_APPROVAL', 'APPROVED', 'REJECTED'))
ApprovedValues == {"PENDING_APPROVAL", "APPROVED", "REJECTED"}

\* request.args.get('email'): absent, empty, or an address.
EmailArgs ==
    {PyNone, PyStr(<<>>), PyStr(<<" ", "A", "@", "x">>), PyStr(EmailB),
     PyStr(<<"c", "@", "x">>)}

\* The gate that lets every user but a rejected one through.
IsApprovedUnlessRejected(user_data) == user_data.approved # "REJECTED"

\* not (user_data.get('approved') != 'APPROVED')
IsApproved(user_data) == user_data.approved = "APPROVED"

InitConversations ==
    /\ \E a1 \in ApprovedValues, a2 \in ApprovedValues :
          users = {[UserRow(1, EmailA, <<"1">>) EXCEPT !.approved = a1],
                   [UserRow(2, EmailB, <<"2">>) EXCEPT !.approved = a2]}
    /\ nextId = 3
    /\ cPc = "idle" /\ cEmail = PyNone /\ cSeen = {} /\ cRet = PyNone /\ cFetched = FALSE
    /\ IdleSearch /\ IdleFind /\ IdlePhone /\ IdleAuth /\ IdleSignup /\ IdleMail /\ IdleWeb
    /\ IdleTools

conversationsOther ==
    <<nextId, searchVars, findVars, phoneVars, authVars, signupVars, mailVars, webVars, toolVars>>

\* An operator approves or rejects a user.
SetApproved ==
    \E row \in users, value \in ApprovedValues :
        /\ value # row.approved
        /\ users' = UpdateById(row.id, [approved |-> value])
        /\ UNCHANGED <<convVars, conversationsOther>>

\* The request arrives: lines 528-543, one read of the users table.
GetConversationsCheck ==
    \E user_email \in EmailArgs :
        /\ cPc \in {"idle", "returned"}
        /\ cEmail' = user_email
        /\ cSeen' = users
        /\ cFetched' = FALSE
        /\ IF ~Truthy(user_email)
           THEN cPc' = "returned" /\ cRet' = [status |-> 400, error |-> "Email is required"]
           ELSE LET user_data == RowsByEmail(NormalizeEmail(user_email.s))
                IN  IF user_data = {}
                    THEN cPc' = "returned" /\ cRet' = [status |-> 404, error |-> "User not found"]
                    ELSE IF ~IsApproved(CHOOSE row \in user_data : TRUE)
                    THEN cPc' = "returned" /\ cRet' = [status |-> 403, error |-> "User not approved"]
                    ELSE cPc' = "fetch" /\ cRet' = PyNone
        /\ UNCHANGED <<users, conversationsOther>>

\* get_user_conversations_data(user_email) returns its data, None, or raises.
GetConversationsFetch ==
    \E outcome \in {"data", "none", "raise"} :
        /\ cPc = "fetch"
        /\ cFetched' = TRUE
        /\ cRet' = IF outcome = "raise"
                   THEN [status |-> 500, error |-> "Failed to get conversations"]
                   ELSE [status |-> 200, error |-> ""]
        /\ cPc' = "returned"
        /\ UNCHANGED <<users, cEmail, cSeen, conversationsOther>>

NextConversations == SetApproved \/ GetConversationsCheck \/ GetConversationsFetch

SpecConversations == InitConversations /\ [][NextConversations]_vars

\* The rows with the request's normalised address when the request arrived.
SeenUser == {row \in cSeen : row.email = Strip(Lower(cEmail.s))}

\* C11: handle_get_conversations answers 200 only if the user with the given
\* email existed with approved = 'APPROVED' when the request arrived; a
\* missing email gets 400, an unknown user 404, any other approved value 403,
\* and in those three cases get_user_conversations_data is not called.
C11_ApprovalGate ==
    cPc = "returned" =>
        /\ cRet.status = 200 =>
              Truthy(cEmail) /\ \E row \in SeenUser : row.approved = "APPROVED"
        /\ ~Truthy(cEmail) => cRet.status = 400
        /\ (Truthy(cEmail) /\ SeenUser = {}) => cRet.status = 404
        /\ (Truthy(cEmail) /\ \E row \in SeenUser : row.approved # "APPROVED") =>
              cRet.status = 403
        /\ cRet.status \in {400, 403, 404} => ~cFetched

\* C11's case: a rejected user asks and is refused without a call of
\* get_user_conversations_data; the operator approves the user afterwards.
C11_Reached ==
    /\ cPc = "returned" /\ cRet.status = 403 /\ ~cFetched
    /\ \E row \in SeenUser :
          /\ row.approved = "REJECTED"
          /\ \E now \in users : now.id = row.id /\ now.approved = "APPROVED"

(***************************************************************************)
(* send_email (src/gmail_client.py): Gmail API, then SendGrid, then SMTP.  *)
(* mEnv is the set of environment variables that are set; mLog lists the   *)
(* methods called so far with the way each call ended.                     *)
(***************************************************************************)
GmailEnv == {"GMAIL_CLIENT_ID", "GMAIL_CLIENT_SECRET", "GMAIL_REFRESH_TOKEN",
             "GMAIL_USER_EMAIL"}
MailEnv == GmailEnv \cup {"SENDGRID_API_KEY", "SMTP_USERNAME", "SMTP_PASSWORD"}

\* if gmail_client_id and gmail_client_secret and gmail_refresh_token and gmail_user_email
GmailConfigured(env) == GmailEnv \subseteq env

\* if sendgrid_api_key
SendGridConfigured(env) == "SENDGRID_API_KEY" \in env

\* if not smtp_username or not smtp_password: raise ValueError
SmtpConfigured(env) == {"SMTP_USERNAME", "SMTP_PASSWORD"} \subseteq env

\* A send_email that goes on to the next method whatever the last one did.
FallsBackAlways(outcome) == TRUE

\* return send_email_...(...) inside try/except: only an exception falls
\* through to the next method.
FallsBack(outcome) == outcome = "raised"

\* Where send_email goes once it is past the named method.
AfterGmail(env) == IF SendGridConfigured(env) THEN "sendgrid" ELSE "smtp"
FirstMethod(env) == IF GmailConfigured(env) THEN "gmail" ELSE AfterGmail(env)

InitMail ==
    /\ mEnv \in SUBSET MailEnv
    /\ mPc = "idle"
    /\ mLog = <<>>
    /\ IdleSearch /\ IdleFind /\ IdlePhone /\ IdleDb /\ IdleAuth /\ IdleSignup /\ IdleConv /\ IdleWeb
    /\ IdleTools

mailOther ==
    <<searchVars, findVars, phoneVars, dbVars, authVars, signupVars, convVars, webVars, toolVars>>

\* send_email(to_email, subject, body) is called.
SendEmailCall ==
    /\ mPc \in {"idle", "returned", "raised"}
    /\ mLog' = <<>>
    /\ mPc' = FirstMethod(mEnv)
    /\ UNCHANGED <<mEnv, mailOther>>

\* A method returns {'success': True} or raises.
MethodEnds(method, outcome, next) ==
    /\ mPc = method
    /\ mLog' = Append(mLog, <<method, outcome>>)
    /\ mPc' = IF FallsBack(outcome) THEN next ELSE "returned"
    /\ UNCHANGED <<mEnv, mailOther>>

SendEmailGmail ==
    \E outcome \in {"ok", "raised"} : MethodEnds("gmail", outcome, AfterGmail(mEnv))

SendEmailSendGrid ==
    \E outcome \in {"ok", "raised"} : MethodEnds("sendgrid", outcome, "smtp")

\* The last method: its exception becomes 'All email methods failed'.
SendEmailSmtp ==
    \E outcome \in {"ok", "raised"} :
        /\ SmtpConfigured(mEnv) \/ outcome = "raised"
        /\ MethodEnds("smtp", outcome, "raised")

NextMail == SendEmailCall \/ SendEmailGmail \/ SendEmailSendGrid \/ SendEmailSmtp

SpecMail == InitMail /\ [][NextMail]_vars

MethodOrder == <<"gmail", "sendgrid", "smtp">>
MethodConfigured(k) ==
    CASE k = 1 -> GmailEnv \subseteq mEnv
      [] k = 2 -> "SENDGRID_API_KEY" \in mEnv
      [] OTHER -> TRUE
Called(k) == \E i \in 1..Len(mLog) : mLog[i][1] = MethodOrder[k]
Ended(k, outcome) == \E i \in 1..Len(mLog) : mLog[i] = <<MethodOrder[k], outcome>>

\* C12: send_email tries Gmail API, SendGrid, SMTP in that order; a later
\* method is called only if every earlier one was unconfigured or raised; the
\* call returns as soon as one method succeeds, so at most one method
\* succeeds per call; and it raises only if SMTP, the last one, also failed.
C12_MethodOrder ==
    /\ \A i \in 1..Len(mLog), j \in 1..Len(mLog) :
          (i < j) => \E a \in 1..3, b \in 1..3 :
                        a < b /\ mLog[i][1] = MethodOrder[a] /\ mLog[j][1] = MethodOrder[b]
    /\ \A k \in 1..3 :
          Called(k) => \A e \in 1..(k - 1) : ~MethodConfigured(e) \/ Ended(e, "raised")
    /\ Cardinality({k \in 1..3 : Ended(k, "ok")}) <= 1
    /\ \A k \in 1..3 :
          Ended(k, "ok") => mPc = "returned" /\ mLog[Len(mLog)][1] = MethodOrder[k]
    /\ mPc = "returned" => \E k \in 1..3 : Ended(k, "ok")
    /\ mPc = "raised" => Ended(3, "raised")

\* C12's case: Gmail raised, SendGrid then delivered, SMTP was not called.
C12_Reached ==
    /\ mPc = "returned"
    /\ mLog = <<<<"gmail", "raised">>, <<"sendgrid", "ok">>>>
    /\ SmtpConfigured(mEnv)

(***************************************************************************)
(* run_all_migrations (migrations/migrate.py).  A migration file is named  *)
(* by the digits its name starts with; xApplied is schema_migrations; xLog *)
(* lists the up() calls of all invocations.                                *)
(***************************************************************************)
MaxRuns == 3

\* 01_..., 010_..., 02_...: files of the migrations directory.
MigrationNames == {<<0, 1>>, <<0, 1, 0>>, <<0, 2>>}

\* Path.__lt__: the order of the names as strings.
NameLess(a, b) ==
    \E k \in 1..(Len(b)) :
        /\ \A i \in 1..(k - 1) : i <= Len(a) /\ a[i] = b[i]
        /\ k > Len(a) \/ a[k] < b[k]

\* sorted([...])
RECURSIVE Sorted(_)
Sorted(files) ==
    IF files = {} THEN <<>>
    ELSE LET first == CHOOSE f \in files : \A g \in files \ {f} : NameLess(f, g)
         IN  <<first>> \o Sorted(files \ {first})

\* A runner that takes every file as pending.
PendingMigrationsAll(files, applied) == Sorted(files)

\* [f for f in migration_files if f.stem not in applied_migrations]
PendingMigrations(files, applied) == Sorted(files \ applied)

\* A fresh database and the directory with its first migration.  The first
\* invocation creates schema_migrations (get_applied_migrations); with a file
\* in the directory that invocation always has a pending migration.
InitMigrate ==
    /\ xFiles = {<<0, 1>>} /\ xApplied = {} /\ xPc = "idle" /\ xPending = <<>>
    /\ xLog = <<>> /\ xRuns = 0
    /\ IdleSearch /\ IdleFind /\ IdlePhone /\ IdleDb /\ IdleAuth /\ IdleSignup
    /\ IdleConv /\ IdleMail /\ IdleWeb /\ IdleFormat /\ IdleCalls

migrateOther ==
    <<searchVars, findVars, phoneVars, dbVars, authVars, signupVars, convVars, mailVars,
      webVars, formatVars, callVars>>

\* A migration file is added to the directory.
AddMigrationFile ==
    \E f \in MigrationNames \ xFiles :
        /\ xPc = "idle"
        /\ xFiles' = xFiles \cup {f}
        /\ UNCHANGED <<xApplied, xPc, xPending, xLog, xRuns, migrateOther>>

\* run_all_migrations() up to the loop: no pending migration -> return.
RunAllMigrations ==
    /\ xPc = "idle"
    /\ xRuns < MaxRuns
    /\ xRuns' = xRuns + 1
    /\ xPending' = PendingMigrations(xFiles, xApplied)
    /\ xPc' = IF xPending' = <<>> THEN "idle" ELSE "running"
    /\ UNCHANGED <<xFiles, xApplied, xLog, migrateOther>>

\* run_migration(migration_file): up() and mark_migration_applied in one
\* transaction; an exception rolls it back and ends the invocation.
RunMigration ==
    \E outcome \in {"ok", "raised"} :
        /\ xPc = "running"
        /\ xLog' = Append(xLog, [run |-> xRuns, file |-> Head(xPending), outcome |-> outcome])
        /\ IF outcome = "ok"
           THEN /\ xApplied' = xApplied \cup {Head(xPending)}
                /\ xPending' = Tail(xPending)
           ELSE /\ xApplied' = xApplied
                /\ xPending' = <<>>
        /\ xPc' = IF xPending' = <<>> THEN "idle" ELSE "running"
        /\ UNCHANGED <<xFiles, xRuns, migrateOther>>

NextMigrate == AddMigrationFile \/ RunAllMigrations \/ RunMigration

SpecMigrate == InitMigrate /\ [][NextMigrate]_vars

\* What the up() calls so far show.
MigrationsRunOnce ==
    /\ \A i \in 1..Len(xLog), j \in 1..Len(xLog) :
          /\ (i < j /\ xLog[i].outcome = "ok") => xLog[j].file # xLog[i].file
          /\ (i < j /\ xLog[i].run = xLog[j].run) =>
                \E k \in 1..Len(xLog[j].file) :
                    /\ \A h \in 1..(k - 1) : h <= Len(xLog[i].file)
                                             /\ xLog[i].file[h] = xLog[j].file[h]
                    /\ k > Len(xLog[i].file) \/ xLog[i].file[k] < xLog[j].file[k]
    /\ xApplied = {xLog[i].file : i \in {j \in 1..Len(xLog) : xLog[j].outcome = "ok"}}

MaxDigits == 11
MaxMarks == 2

IsDigitOrPlus(c) == IsDigit(c) \/ c = "+"

format_phone_number(phone) ==
    LET cleaned == SelectSeq(phone, IsDigitOrPlus)
    IN  IF StartsWith(cleaned, <<"+">>) THEN cleaned
        ELSE IF Len(cleaned) = PhoneDigits THEN <<"+", "1">> \o cleaned
        ELSE IF Len(cleaned) = CountryCodeLen /\ cleaned[1] = "1" THEN <<"+">> \o cleaned
        ELSE <<"+", "1">> \o cleaned

InitFormat ==
    /\ kIn = <<>> /\ kOut = <<>>
    /\ IdleSearch /\ IdleFind /\ IdlePhone /\ IdleDb /\ IdleAuth /\ IdleSignup
    /\ IdleConv /\ IdleMail /\ IdleWeb /\ IdleMigrate /\ IdleCalls

formatOther ==
    <<searchVars, findVars, phoneVars, dbVars, authVars, signupVars, convVars, mailVars,
      webVars, migrateVars, callVars>>

\* The caller's phone string grows by a digit: 1 or 5 in front, 5 after.
TypeDigit ==
    \E c \in {"1", "5"} :
        /\ kOut = <<>>
        /\ Len(DigitsOf(kIn)) < MaxDigits
        /\ c = "5" \/ DigitsOf(kIn) = <<>>
        /\ kIn' = Append(kIn, c)
        /\ UNCHANGED <<kOut, formatOther>>

\* ... or by a '+' or a '-'.
TypeMark ==
    \E c \in {"+", "-"} :
        /\ kOut = <<>>
        /\ Len(kIn) - Len(DigitsOf(kIn)) < MaxMarks
        /\ kIn' = Append(kIn, c)
        /\ UNCHANGED <<kOut, formatOther>>

CallFormat ==
    /\ kOut = <<>>
    /\ kOut' = format_phone_number(kIn)
    /\ UNCHANGED <<kIn, formatOther>>

NextFormat == TypeDigit \/ TypeMark \/ CallFormat

SpecFormat == InitFormat /\ [][NextFormat]_vars

\* C15: format_phone_number returns an E.164-shaped string for every input:
\* one '+' followed only by digits; a 10-digit input gives '+1' and those
\* digits, an 11-digit input starting with 1 gives '+' and those digits.
C15_FormatIsE164 ==
    kOut # <<>> =>
        /\ kOut[1] = "+"
        /\ \A i \in 2..Len(kOut) : IsDigit(kOut[i])
        /\ (Len(kIn) = 10 /\ DigitsOf(kIn) = kIn) => kOut = <<"+", "1">> \o kIn
        /\ (Len(kIn) = 11 /\ DigitsOf(kIn) = kIn /\ kIn[1] = "1") => kOut = <<"+">> \o kIn

(***************************************************************************)
(* The multi-call script (test_agent_call.py): get_approved_users and the  *)
(* loop of main.  qLog lists the call attempts and the sleeps.             *)
(***************************************************************************)
MaxUsers == 3
SleepSeconds == 3

\* A query that forgets the phone_number test.
EligibleWithoutPhone(row) == row.approved = "APPROVED"

\* WHERE approved = 'APPROVED' AND phone_number IS NOT NULL
Eligible(row) == row.approved = "APPROVED" /\ row.phone_number # PyNone

\* get_approved_users(): the eligible rows, ORDER BY id.
get_approved_users ==
    LET rows == {row \in users : Eligible(row)}
    IN  CHOOSE list \in [1..Cardinality(rows) -> rows] :
            \A i \in 1..Cardinality(rows), j \in 1..Cardinality(rows) :
                i < j => list[i].id < list[j].id

\* A loop that also sleeps after the last attempt.
SleepsAfterEvery(idx, total_numbers) == TRUE

\* if idx < total_numbers: time.sleep(3)
SleepsAfter(idx, total_numbers) == idx < total_numbers

InitCalls ==
    /\ \E column \in [1..MaxUsers -> ApprovedValues \X {PyNone, PyStr(<<"5">>)}] :
          users = {[UserRow(id, IntStr(id), column[id][2]) EXCEPT !.approved = column[id][1]] :
                     id \in 1..MaxUsers}
    /\ nextId = MaxUsers + 1
    /\ qPc = "query" /\ qUsers = <<>> /\ qIdx = 0 /\ qLog = <<>>
    /\ IdleSearch /\ IdleFind /\ IdlePhone /\ IdleAuth /\ IdleSignup
    /\ IdleConv /\ IdleMail /\ IdleWeb /\ IdleMigrate /\ IdleFormat

callsOther ==
    <<dbVars, searchVars, findVars, phoneVars, authVars, signupVars, convVars, mailVars,
      webVars, migrateVars, formatVars>>

\* Lines 83-95: the query; it raised -> sys.exit(1), nobody to call -> sys.exit(0).
QueryUsers ==
    \E answered \in BOOLEAN :
        /\ qPc = "query"
        /\ qUsers' = IF answered THEN get_approved_users ELSE <<>>
        /\ qIdx' = 1
        /\ qPc' = IF qUsers' = <<>> THEN "exit" ELSE "setup"
        /\ UNCHANGED <<qLog, callsOther>>

\* Lines 104-140: the clients and the phone number; a failure -> sys.exit(1).
SetUp ==
    \E ready \in BOOLEAN :
        /\ qPc = "setup"
        /\ qPc' = IF ready THEN "call" ELSE "exit"
        /\ UNCHANGED <<qUsers, qIdx, qLog, callsOther>>

\* make_outbound_call for user idx returns or raises.
CallAttempt ==
    \E outcome \in {"ok", "raised"} :
        /\ qPc = "call"
        /\ qLog' = Append(qLog, [kind |-> "call", id |-> qUsers[qIdx].id,
                                 to_number |-> format_phone_number(Str(qUsers[qIdx].phone_number)),
                                 outcome |-> outcome])
        /\ qPc' = IF SleepsAfter(qIdx, Len(qUsers)) THEN "sleep"
                  ELSE IF qIdx < Len(qUsers) THEN "call" ELSE "done"
        /\ qIdx' = IF qPc' = "call" THEN qIdx + 1 ELSE qIdx
        /\ UNCHANGED <<qUsers, callsOther>>

\* time.sleep(3), then the next user, if any.
Sleep ==
    /\ qPc = "sleep"
    /\ qLog' = Append(qLog, [kind |-> "sleep", seconds |-> SleepSeconds])
    /\ qPc' = IF qIdx < Len(qUsers) THEN "call" ELSE "done"
    /\ qIdx' = IF qIdx < Len(qUsers) THEN qIdx + 1 ELSE qIdx
    /\ UNCHANGED <<qUsers, callsOther>>

NextCalls == QueryUsers \/ SetUp \/ CallAttempt \/ Sleep

SpecCalls == InitCalls /\ [][NextCalls]_vars

CallEvents == {i \in 1..Len(qLog) : qLog[i].kind = "call"}
CalledIds == {qLog[i].id : i \in CallEvents}
ApprovedWithPhone ==
    {row.id : row \in {r \in users : r.approved = "APPROVED" /\ r.phone_number # PyNone}}

\* C19: the script calls only users with approved = 'APPROVED' and a
\* phone_number that is not NULL, makes one attempt per such user in
\* ascending id order, goes on after an attempt that raised, and waits 3
\* seconds after every attempt but the last, successful or not.
C19_OneCallPerApprovedUser ==
    /\ CalledIds \subseteq ApprovedWithPhone
    /\ \A i \in CallEvents, j \in CallEvents : i < j => qLog[i].id < qLog[j].id
    /\ \A i \in 1..(Len(qLog) - 1) :
          IF qLog[i].kind = "call"
          THEN qLog[i + 1] = [kind |-> "sleep", seconds |-> 3]
          ELSE qLog[i + 1].kind = "call"
    /\ qLog # <<>> => qLog[1].kind = "call"
    /\ qPc = "done" => CalledIds = ApprovedWithPhone /\ qLog[Len(qLog)].kind = "call"
    /\ qPc = "exit" => qLog = <<>>

\* C19's case: the first attempt raised, the script slept and called the
\* next approved user, and a user without phone number was left out.
C19_Reached ==
    /\ qPc = "done"
    /\ Len(qLog) = 3
    /\ qLog[1].outcome = "raised" /\ qLog[3].outcome = "ok"
    /\ \E row \in users : row.approved = "APPROVED" /\ row.phone_number = PyNone

====
